---- MODULE Spec2Model ----
(***************************************************************************)
(* Model of the AWS news MCP server: the fetch_aws_news request builder    *)
(* and its two tool front ends, get_aws_news (main.py, FastMCP) and        *)
(* call_tool (aws_news_server.py, low-level Server).                       *)
(*                                                                         *)
(* Strings are sequences of one-character strings, so that str.lower,      *)
(* str.replace, datetime.fromisoformat and urlencode are computed          *)
(* character by character as the interpreter computes them.                *)
(***************************************************************************)
EXTENDS Integers, Sequences, FiniteSets, TLC

(***************************************************************************)
(* Bounds of the model.                                                    *)
(***************************************************************************)
NumCalls == 2          \* tool calls that may be in flight at once
MaxArticles == 2       \* longest article sequence the upstream returns

(***************************************************************************)
(* Characters and Python values.                                           *)
(***************************************************************************)
NUL == "NUL"                       \* the terminator a C string ends in
None == <<"None">>                 \* Python's None (no character is "None")

UpperCase == <<"A","B","C","D","E","F","G","H","I","J","K","L","M",
               "N","O","P","Q","R","S","T","U","V","W","X","Y","Z">>
LowerCase == <<"a","b","c","d","e","f","g","h","i","j","k","l","m",
               "n","o","p","q","r","s","t","u","v","w","x","y","z">>
Digits == <<"0","1","2","3","4","5","6","7","8","9">>

is_upper(ch) == \E i \in 1..26 : UpperCase[i] = ch
is_lower(ch) == \E i \in 1..26 : LowerCase[i] = ch
is_digit(ch) == \E i \in 1..10 : Digits[i] = ch
DigitVal(ch) == (CHOOSE i \in 1..10 : Digits[i] = ch) - 1

\* str.lower(): every cased character to lower case
LowerChar(ch) == IF is_upper(ch)
                 THEN LowerCase[CHOOSE i \in 1..26 : UpperCase[i] = ch]
                 ELSE ch
lower(s) == [i \in 1..Len(s) |-> LowerChar(s[i])]

\* str.replace(old, new) for a one-character old: every occurrence, left to right
RECURSIVE replace(_, _, _)
replace(s, old, new) ==
    IF s = <<>> THEN <<>>
    ELSE (IF Head(s) = old THEN new ELSE <<Head(s)>>) \o replace(Tail(s), old, new)

\* bool(x) of an Optional[str]: None and "" are falsy
Truthy(s) == s # None /\ s # <<>>

\* str(int) for a non-negative int
RECURSIVE IntToStr(_)
IntToStr(n) == IF n < 10 THEN <<Digits[n + 1]>>
               ELSE IntToStr(n \div 10) \o <<Digits[(n % 10) + 1]>>

(***************************************************************************)
(* datetime.fromisoformat, as CPython's _datetimemodule.c computes it.     *)
(* Two builds are in reach of the package (the mcp SDK needs Python 3.10   *)
(* or later): "py310" parses only YYYY-MM-DD[*HH[:MM[:SS[.fff[fff]]]]      *)
(* [+HH:MM[:SS]]], "py311" (3.11 to 3.13) also the basic formats.  Indices *)
(* are C's, from 0; a read at the end of the string yields NUL.  The       *)
(* branches for ISO week dates (a 'W' at index 4 or 5) and for a literal   *)
(* 'Z' are left out: no input holds a 'W', and fetch_aws_news replaces     *)
(* every 'Z' before the parse.                                             *)
(***************************************************************************)
PyVersions == {"py310", "py311"}

At0(s, j) == IF j \in 0..(Len(s) - 1) THEN s[j + 1] ELSE NUL

AllDigits(s, p, n) == \A k \in 0..(n - 1) : is_digit(At0(s, p + k))

\* parse_digits: the value of the n digits at s[p .. p+n-1]
RECURSIVE NumVal(_, _, _)
NumVal(s, p, n) == IF n = 0 THEN 0
                   ELSE 10 * NumVal(s, p, n - 1) + DigitVal(At0(s, p + n - 1))

is_leap(y) == y % 4 = 0 /\ (y % 100 # 0 \/ y % 400 = 0)
days_in_month(y, m) == IF m = 2 THEN (IF is_leap(y) THEN 29 ELSE 28)
                       ELSE IF m \in {4, 6, 9, 11} THEN 30 ELSE 31

\* new_datetime's range check of the date fields
DateInRange(y, m, d) == /\ y \in 1..9999
                        /\ m \in 1..12
                        /\ d \in 1..days_in_month(y, m)

\* _find_isoformat_datetime_separator (py311): where the date part ends
find_isoformat_datetime_separator(s) ==
    IF Len(s) = 7 THEN 7
    ELSE IF At0(s, 4) = "-" THEN 10 ELSE 8

\* parse_isoformat_date: TRUE iff the date part parses and is in range
parse_isoformat_date(ver, s) ==
    IF ver = "py310"
    THEN /\ AllDigits(s, 0, 4) /\ At0(s, 4) = "-"
         /\ AllDigits(s, 5, 2) /\ At0(s, 7) = "-"
         /\ AllDigits(s, 8, 2)
         /\ DateInRange(NumVal(s, 0, 4), NumVal(s, 5, 2), NumVal(s, 8, 2))
    ELSE LET sep == At0(s, 4) = "-"
             pm  == IF sep THEN 5 ELSE 4
             pd  == IF sep THEN 8 ELSE 6
         IN  /\ AllDigits(s, 0, 4)
             /\ AllDigits(s, pm, 2)
             /\ (sep => At0(s, pm + 2) = "-")
             /\ AllDigits(s, pd, 2)
             /\ DateInRange(NumVal(s, 0, 4), NumVal(s, pm, 2), NumVal(s, pd, 2))

\* The fractional part of parse_hh_mm_ss_ff, from index p to pEnd.
\* rv: -3 malformed, 0 the string ends here, 1 it does not.
RECURSIVE SkipDigits(_, _)
SkipDigits(t, p) == IF is_digit(At0(t, p)) THEN SkipDigits(t, p + 1) ELSE p

parse_fraction(ver, t, p, pEnd, vals) ==
    LET len_remains == pEnd - p
    IN  IF ver = "py310"
        THEN IF ~(len_remains = 6 \/ len_remains = 3) THEN [rv |-> -3, vals |-> vals]
             ELSE IF ~AllDigits(t, p, len_remains) THEN [rv |-> -3, vals |-> vals]
             ELSE [rv |-> IF At0(t, p + len_remains) # NUL THEN 1 ELSE 0, vals |-> vals]
        ELSE LET to_parse == IF len_remains >= 6 THEN 6 ELSE len_remains
             IN  IF ~AllDigits(t, p, to_parse) THEN [rv |-> -3, vals |-> vals]
                 ELSE [rv |-> IF At0(t, SkipDigits(t, p + to_parse)) # NUL THEN 1 ELSE 0,
                       vals |-> vals]

\* parse_hh_mm_ss_ff: [HH[:MM[:SS[.ffffff]]]] in t[p .. pEnd-1]; i is the loop
\* index, has_separator what iteration 0 saw, vals the components so far.
RECURSIVE parse_hh_mm_ss_ff(_, _, _, _, _, _, _)
parse_hh_mm_ss_ff(ver, t, p, pEnd, i, has_separator, vals) ==
    IF i = 3 THEN parse_fraction(ver, t, p, pEnd, vals)
    ELSE IF ~AllDigits(t, p, 2) THEN [rv |-> -3, vals |-> vals]
    ELSE LET v    == NumVal(t, p, 2)
             c    == At0(t, p + 2)
             p1   == p + 3
             hs   == IF ver = "py310" THEN TRUE
                     ELSE IF i = 0 THEN c = ":" ELSE has_separator
             nv   == [vals EXCEPT ![i + 1] = v]
         IN  IF p1 >= pEnd THEN [rv |-> IF c # NUL THEN 1 ELSE 0, vals |-> nv]
             ELSE IF hs /\ c = ":"
                  THEN parse_hh_mm_ss_ff(ver, t, p1, pEnd, i + 1, hs, nv)
             ELSE IF c = "." \/ (ver # "py310" /\ c = ",")
                  THEN parse_fraction(ver, t, p1, pEnd, nv)
             ELSE IF ~hs
                  THEN parse_hh_mm_ss_ff(ver, t, p1 - 1, pEnd, i + 1, hs, nv)
             ELSE [rv |-> -4, vals |-> nv]

\* The do-while of parse_isoformat_time: index of the first '+' or '-',
\* looked for at 0 first and then while ++pos < len
RECURSIVE find_tzinfo(_, _)
find_tzinfo(t, pos) ==
    IF At0(t, pos) \in {"+", "-"} THEN pos
    ELSE IF pos + 1 < Len(t) THEN find_tzinfo(t, pos + 1) ELSE pos + 1

\* parse_isoformat_time and the range checks of new_datetime and new_timezone:
\* TRUE iff the time part t parses
parse_isoformat_time(ver, t) ==
    LET p_end == Len(t)
        tzpos == find_tzinfo(t, 0)
        tm    == parse_hh_mm_ss_ff(ver, t, 0, tzpos, 0, TRUE, <<0, 0, 0>>)
        tz    == parse_hh_mm_ss_ff(ver, t, tzpos + 1, p_end, 0, TRUE, <<0, 0, 0>>)
        timeOK == tm.vals[1] \in 0..23 /\ tm.vals[2] \in 0..59 /\ tm.vals[3] \in 0..59
    IN  IF tm.rv < 0 THEN FALSE
        ELSE IF tzpos = p_end THEN tm.rv = 0 /\ timeOK
        ELSE /\ tz.rv = 0
             /\ timeOK
             /\ tz.vals[1] * 3600 + tz.vals[2] * 60 + tz.vals[3] < 86400

\* datetime.fromisoformat(s): TRUE iff it returns, FALSE iff it raises ValueError
fromisoformat(ver, s) ==
    LET separator_location ==
            IF ver = "py310" THEN 10 ELSE find_isoformat_datetime_separator(s)
    IN  /\ (ver # "py310" => Len(s) >= 7)
        /\ parse_isoformat_date(ver, s)
        /\ (Len(s) > separator_location =>
               parse_isoformat_time(ver, SubSeq(s, separator_location + 2, Len(s))))

(***************************************************************************)
(* urllib.parse.urlencode: str() of every key and value, quote_plus of     *)
(* both, key=value joined by '&'.  A dict is a sequence of <<key, value>>  *)
(* in insertion order; a value is tagged with its Python type.             *)
(***************************************************************************)
StrV(s)  == [t |-> "str",  s |-> s,    n |-> 0, b |-> FALSE]
IntV(n)  == [t |-> "int",  s |-> <<>>, n |-> n, b |-> FALSE]
BoolV(b) == [t |-> "bool", s |-> <<>>, n |-> 0, b |-> b]

\* str(v)
str(v) == IF v.t = "str" THEN v.s
          ELSE IF v.t = "int" THEN IntToStr(v.n)
          ELSE IF v.b THEN <<"T","r","u","e">> ELSE <<"F","a","l","s","e">>

\* quote_plus of one character: unreserved characters as they are, a space
\* as '+', anything else as %XX
AlwaysSafe(ch) == is_upper(ch) \/ is_lower(ch) \/ is_digit(ch) \/ ch \in {"_", ".", "-", "~"}
PercentCode(ch) == CASE ch = ":" -> <<"%","3","A">>
                     [] ch = "+" -> <<"%","2","B">>
                     [] ch = "," -> <<"%","2","C">>
                     [] ch = "&" -> <<"%","2","6">>
                     [] ch = "=" -> <<"%","3","D">>
                     [] ch = "%" -> <<"%","2","5">>
                     [] ch = "/" -> <<"%","2","F">>
QuoteChar(ch) == IF AlwaysSafe(ch) THEN <<ch>>
                 ELSE IF ch = " " THEN <<"+">>
                 ELSE PercentCode(ch)
RECURSIVE quote_plus(_)
quote_plus(s) == IF s = <<>> THEN <<>> ELSE QuoteChar(Head(s)) \o quote_plus(Tail(s))

RECURSIVE urlencode(_)
urlencode(params) ==
    IF params = <<>> THEN <<>>
    ELSE LET kv == Head(params)
             l  == quote_plus(kv[1]) \o <<"=">> \o quote_plus(str(kv[2]))
         IN  IF Len(params) = 1 THEN l ELSE l \o <<"&">> \o urlencode(Tail(params))

(***************************************************************************)
(* Names of the program.                                                   *)
(***************************************************************************)
base_url == "https://api.aws-news.com/articles"
K_page_size == <<"p","a","g","e","_","s","i","z","e">>
K_hide == <<"h","i","d","e","_","r","e","g","i","o","n","a","l","_",
            "e","x","p","a","n","s","i","o","n","s">>
K_search == <<"s","e","a","r","c","h">>
K_article_type == <<"a","r","t","i","c","l","e","_","t","y","p","e">>
K_since == <<"s","i","n","c","e">>
S_news == <<"n","e","w","s">>
S_blogs == <<"b","l","o","g","s">>
S_blog == <<"b","l","o","g">>
S_all == <<"a","l","l">>
UTC_offset == <<"+","0","0",":","0","0">>

DefaultNewsType == S_all        \* news_type: str = "all"
DefaultInclude == FALSE         \* include_regional_expansions: bool = False
DefaultLimit == 40              \* limit / number_of_results: int = 40

InvalidDateMsg == "Invalid date format. Please use ISO 8601 format (e.g., 2025-05-01T00:00:00Z)"
ErrorPrefix == "Error fetching AWS news: "

(***************************************************************************)
(* fetch_aws_news up to its first await: the query parameters, the         *)
(* article type filter, the date validation and the URL.                   *)
(***************************************************************************)
\* the filter compared without lower(): only the exact lower-case words match
article_type_params_cased(news_type) ==
    IF news_type = S_news THEN <<<<K_article_type, StrV(S_news)>>>>
    ELSE IF news_type = S_blogs \/ news_type = S_blog
         THEN <<<<K_article_type, StrV(S_blog)>>>>
    ELSE <<>>

\* lines 34-44: the base parameters and the article type filter
article_type_params(news_type) ==
    IF lower(news_type) = S_news THEN <<<<K_article_type, StrV(S_news)>>>>
    ELSE IF lower(news_type) = S_blogs \/ lower(news_type) = S_blog
         THEN <<<<K_article_type, StrV(S_blog)>>>>
    ELSE <<>>

\* the except clause swallowing the ValueError instead of raising
date_invalid_swallowed(ver, since_date) == FALSE

\* lines 47-50: TRUE iff the try block raises ValueError
date_invalid(ver, since_date) ==
    Truthy(since_date) /\ ~fromisoformat(ver, replace(since_date, "Z", UTC_offset))

\* lines 47-51: the since parameter, when the date filter is provided and valid
since_params(ver, since_date) ==
    IF Truthy(since_date) /\ ~date_invalid(ver, since_date)
    THEN <<<<K_since, StrV(since_date)>>>>
    ELSE <<>>

build_params(ver, topic, news_type, include_regional_expansions, limit, since_date) ==
    << <<K_page_size, IntV(limit)>>,
       <<K_hide, BoolV(~include_regional_expansions)>>,
       <<K_search, StrV(topic)>> >>
    \o article_type_params(news_type)
    \o since_params(ver, since_date)

(***************************************************************************)
(* A tool call.  Each call slot holds one invocation of a tool handler:    *)
(* where it stands (pc), the front end that serves it, what the caller     *)
(* passed, the handler's locals, the URL fetch_aws_news built, the HTTP    *)
(* client it holds, the requests it issued, what the upstream did, the     *)
(* exception or data pending in fetch_aws_news, and the handler's outcome. *)
(***************************************************************************)
CallIds == 1..NumCalls
ClientIds == 1..NumCalls     \* AsyncClient objects alive at once: one per call

EmptyDict == [k \in {} |-> 0]
Get(d, k, default) == IF k \in DOMAIN d THEN d[k] ELSE default     \* dict.get

NoExc == [type |-> "none", msg |-> <<>>, status |-> 0, url |-> <<>>]
ValueError(msg) == [type |-> "ValueError", msg |-> msg, status |-> 0, url |-> <<>>]
ConnectError == [type |-> "ConnectError", msg |-> <<>>, status |-> 0, url |-> <<>>]
HTTPStatusError(status, url) ==
    [type |-> "HTTPStatusError", msg |-> <<>>, status |-> status, url |-> url]
JSONDecodeError == [type |-> "JSONDecodeError", msg |-> <<>>, status |-> 0, url |-> <<>>]

NoEnv == [topic |-> <<>>, news_type |-> <<>>,
          include_regional_expansions |-> FALSE, articles |-> <<>>]
NoOut == [kind |-> "none", json |-> FALSE, prefix |-> "", exc |-> NoExc, env |-> NoEnv]
\* the exception leaves the handler
Raised(e) == [kind |-> "raised", json |-> FALSE, prefix |-> "", exc |-> e, env |-> NoEnv]
\* return f"Error fetching AWS news: {str(e)}"
ErrorText(e) == [kind |-> "returned", json |-> FALSE, prefix |-> ErrorPrefix,
                 exc |-> e, env |-> NoEnv]
\* return json.dumps(result, indent=2)
EnvelopeText(env) == [kind |-> "returned", json |-> TRUE, prefix |-> "",
                      exc |-> NoExc, env |-> env]

NoLoc == [topic |-> <<>>, news_type |-> <<>>, include_regional_expansions |-> FALSE,
          limit |-> 0, since_date |-> None]
NoUpstream == [net |-> "none", status |-> 0, json |-> FALSE, data |-> <<>>]
NoPending == [exc |-> NoExc, data |-> <<>>]

IdleCall == [pc |-> "idle", fe |-> "none", name |-> "", arguments |-> EmptyDict,
             loc |-> NoLoc, url |-> <<>>, client |-> 0, nreq |-> 0, sent |-> <<>>,
             upstream |-> NoUpstream, pending |-> NoPending, out |-> NoOut]

VARIABLES pyver,    \* the interpreter the server runs on
          call,     \* call slot -> the invocation in it
          open      \* the AsyncClient objects that are open

vars == <<pyver, call, open>>

(***************************************************************************)
(* The handlers.                                                           *)
(***************************************************************************)
\* except ValueError as e: any other exception leaves the handler
handler_except_value_only(e) == IF e.type = "ValueError" THEN ErrorText(e) ELSE Raised(e)

\* except Exception as e: the error text
handler_except(e) == ErrorText(e)

\* the envelope with the articles cut to the limit: news_articles[:limit]
handler_success_sliced(loc, news_articles) ==
    EnvelopeText([topic |-> loc.topic,
                  news_type |-> loc.news_type,
                  include_regional_expansions |-> loc.include_regional_expansions,
                  articles |-> SubSeq(news_articles, 1,
                                      IF Len(news_articles) < loc.limit
                                      THEN Len(news_articles) ELSE loc.limit)])

\* the result envelope around the articles fetch_aws_news returned
handler_success(loc, news_articles) ==
    EnvelopeText([topic |-> loc.topic,
                  news_type |-> loc.news_type,
                  include_regional_expansions |-> loc.include_regional_expansions,
                  articles |-> news_articles])

\* fetch_aws_news from its first line to the async with: raises on a date
\* that does not validate, which the handler's except turns into its result
fetch_entry(ver, rec) ==
    IF date_invalid(ver, rec.loc.since_date)
    THEN [rec EXCEPT !.pc = "done",
                     !.out = handler_except(ValueError(<<InvalidDateMsg>>))]
    ELSE [rec EXCEPT !.pc = "built",
                     !.url = urlencode(build_params(ver, rec.loc.topic, rec.loc.news_type,
                                         rec.loc.include_regional_expansions,
                                         rec.loc.limit, rec.loc.since_date))]

\* call_tool with a default of its own for number_of_results
call_tool_locals_own_default(arguments) ==
    [topic |-> arguments["topic"],
     news_type |-> Get(arguments, "news_type", DefaultNewsType),
     include_regional_expansions |->
         Get(arguments, "include_regional_expansions", DefaultInclude),
     limit |-> Get(arguments, "number_of_results", 10),
     since_date |-> Get(arguments, "since_date", None)]

\* call_tool: the locals it extracts from the arguments dict
call_tool_locals(arguments) ==
    [topic |-> arguments["topic"],
     news_type |-> Get(arguments, "news_type", DefaultNewsType),
     include_regional_expansions |->
         Get(arguments, "include_regional_expansions", DefaultInclude),
     limit |-> Get(arguments, "number_of_results", DefaultLimit),
     since_date |-> Get(arguments, "since_date", None)]

\* get_aws_news: its parameters, with the defaults of the signature
get_aws_news_locals(kwargs) ==
    [topic |-> kwargs["topic"],
     news_type |-> Get(kwargs, "news_type", DefaultNewsType),
     include_regional_expansions |->
         Get(kwargs, "include_regional_expansions", DefaultInclude),
     limit |-> Get(kwargs, "number_of_results", DefaultLimit),
     since_date |-> Get(kwargs, "since_date", None)]

\* call_tool (aws_news_server.py) up to the first await
call_tool_entry(ver, name, arguments) ==
    LET rec == [IdleCall EXCEPT !.fe = "server", !.name = name, !.arguments = arguments]
    IN  IF name # "get_aws_news"
        THEN [rec EXCEPT !.pc = "done",
                         !.out = Raised(ValueError(<<"Unknown tool: ", name>>))]
        ELSE IF "topic" \notin DOMAIN arguments
        THEN [rec EXCEPT !.pc = "done",
                         !.out = Raised(ValueError(<<"Missing required argument 'topic'">>))]
        ELSE fetch_entry(ver, [rec EXCEPT !.loc = call_tool_locals(arguments)])

\* get_aws_news (main.py) up to the first await
get_aws_news_entry(ver, kwargs) ==
    LET rec == [IdleCall EXCEPT !.fe = "main", !.name = "get_aws_news",
                                !.arguments = kwargs]
    IN  fetch_entry(ver, [rec EXCEPT !.loc = get_aws_news_locals(kwargs)])

(***************************************************************************)
(* The request.                                                            *)
(***************************************************************************)
\* httpx.AsyncClient(): a client object no one else holds
new_client(opened) == CHOOSE k \in ClientIds \ opened : \A j \in ClientIds \ opened : k <= j

\* Response.is_success
is_success(status) == status \in 200..299

\* client.get, raise_for_status and response.json: what is pending in
\* fetch_aws_news once the upstream has answered (or failed to)
response_result(u, url) ==
    IF u.net = "fail" THEN [exc |-> ConnectError, data |-> <<>>]
    ELSE IF ~is_success(u.status) THEN [exc |-> HTTPStatusError(u.status, url), data |-> <<>>]
    ELSE IF ~u.json THEN [exc |-> JSONDecodeError, data |-> <<>>]
    ELSE [exc |-> NoExc, data |-> u.data]

\* a client that follows redirects: a 302 sends the request again
next_after_get_redirect(pending) ==
    IF pending.exc.type = "HTTPStatusError" /\ pending.exc.status = 302
    THEN "client" ELSE "exiting"

\* a retry loop around the GET: a failed request is sent again
next_after_get_retry(pending) ==
    IF pending.exc.type # "none" THEN "client" ELSE "exiting"

\* where fetch_aws_news goes once the GET is over: out of the async with,
\* with the data or with the exception
next_after_get(pending) == "exiting"

\* client.aclose() after response.json() instead of async with: an exception skips it
exit_client_on_success(opened, rec) ==
    IF rec.pending.exc.type = "none" THEN opened \ {rec.client} ELSE opened

\* AsyncClient.__aexit__: the client is closed however the block is left
exit_client(opened, rec) == opened \ {rec.client}

(***************************************************************************)
(* What callers pass and what the upstream answers.                        *)
(***************************************************************************)
T_s3 == <<"s","3">>
Topics == {<<>>, T_s3}

NT_News == <<"N","e","w","s">>
NT_BLOG == <<"B","L","O","G">>
NT_new == <<"n","e","w">>
\* "all" is what an omitted news_type defaults to
NewsTypes == {NT_News, S_blogs, NT_BLOG, NT_new}

\* False is what an omitted include_regional_expansions defaults to
Includes == {TRUE}

Limits == {1}

D_example == <<"2","0","2","5","-","0","5","-","0","1","T","0","0",":","0","0",":","0","0","Z">>
D_offset == <<"2","0","2","5","-","0","5","-","0","1","T","0","0",":","0","0",":","0","0","+","0","0",":","0","0">>
D_date == <<"2","0","2","5","-","0","5","-","0","1">>
D_basic == <<"2","0","2","5","0","5","0","1","T","0","0","0","0","0","0","Z">>
D_ordinal == <<"2","0","2","5","-","1","2","1","T","0","0",":","0","0",":","0","0","Z">>
D_space == <<"2","0","2","5","-","0","5","-","0","1"," ","0","0",":","0","0",":","0","0">>
D_text == <<"n","o","t","-","a","-","d","a","t","e">>
D_month13 == <<"2","0","2","5","-","1","3","-","0","1","T","0","0",":","0","0",":","0","0","Z">>
D_empty == <<>>
SinceDates == {D_example, D_offset, D_date, D_basic, D_ordinal, D_space,
               D_text, D_month13, D_empty}

ToolNames == {"get_aws_news", "other_tool"}

ArgKeys == {"topic", "news_type", "include_regional_expansions",
            "number_of_results", "since_date"}

MkArgs(dom, t, nt, inc, n, sd) ==
    [k \in dom |-> CASE k = "topic" -> t
                     [] k = "news_type" -> nt
                     [] k = "include_regional_expansions" -> inc
                     [] k = "number_of_results" -> n
                     [] k = "since_date" -> sd]

\* the arguments dicts call_tool may be handed: any keys
Arguments ==
    {MkArgs(dom, t, nt, inc, n, sd) :
        dom \in SUBSET ArgKeys, t \in Topics, nt \in NewsTypes, inc \in Includes,
        n \in Limits, sd \in SinceDates}

\* the keyword arguments get_aws_news may be called with: topic is a
\* parameter without default
KwArguments == {a \in Arguments : "topic" \in DOMAIN a}

\* the calls made while others are in flight
ConcArguments ==
    {MkArgs(dom, T_s3, S_all, TRUE, 1, D_text) :
        dom \in {d \in SUBSET {"topic", "include_regional_expansions", "since_date"} :
                    "topic" \in d}}

Articles == {"a1", "a2"}
ArticleSeqs == UNION {[1..n -> Articles] : n \in 0..MaxArticles}

NetworkFailure == [net |-> "fail", status |-> 0, json |-> FALSE, data |-> <<>>]
Response(status, json, data) == [net |-> "ok", status |-> status, json |-> json, data |-> data]
Upstreams ==
    {NetworkFailure, Response(302, FALSE, <<>>), Response(500, FALSE, <<>>),
     Response(200, FALSE, <<>>)}
    \cup {Response(200, TRUE, d) : d \in ArticleSeqs}
ConcUpstreams == {NetworkFailure, Response(200, TRUE, <<"a1">>)}

(***************************************************************************)
(* The state after the server is constructed, and the steps of a call.     *)
(***************************************************************************)
Init == /\ pyver \in PyVersions
        /\ call = [c \in CallIds |-> IdleCall]
        /\ open = {}

InFlight == {c \in CallIds : call[c].pc # "idle"}
FreeSlot == CHOOSE c \in CallIds \ InFlight : \A d \in CallIds \ InFlight : c <= d

\* the low-level server dispatches a tools/call request to call_tool
CallTool(c, name, arguments) ==
    /\ call[c].pc = "idle"
    /\ call' = [call EXCEPT ![c] = call_tool_entry(pyver, name, arguments)]
    /\ UNCHANGED <<pyver, open>>

\* FastMCP dispatches a tools/call request to get_aws_news
GetAwsNews(c, kwargs) ==
    /\ call[c].pc = "idle"
    /\ call' = [call EXCEPT ![c] = get_aws_news_entry(pyver, kwargs)]
    /\ UNCHANGED <<pyver, open>>

\* async with httpx.AsyncClient() as client
AcquireClient(c) ==
    /\ call[c].pc = "built"
    /\ LET k == new_client(open)
       IN  /\ call' = [call EXCEPT ![c].pc = "client", ![c].client = k]
           /\ open' = open \cup {k}
    /\ UNCHANGED pyver

\* client.get(url): the request goes out
SendGet(c) ==
    /\ call[c].pc = "client"
    /\ call' = [call EXCEPT ![c].pc = "awaiting",
                            ![c].nreq = @ + 1,
                            ![c].sent = call[c].url]
    /\ UNCHANGED <<pyver, open>>

\* the await of client.get ends: raise_for_status, response.json
Receive(c, u) ==
    /\ call[c].pc = "awaiting"
    /\ LET pending == response_result(u, call[c].url)
       IN  call' = [call EXCEPT ![c].pc = next_after_get(pending),
                                ![c].upstream = u,
                                ![c].pending = pending]
    /\ UNCHANGED <<pyver, open>>

\* the async with block is left and the handler builds its result
ReleaseClient(c) ==
    /\ call[c].pc = "exiting"
    /\ open' = exit_client(open, call[c])
    /\ call' = [call EXCEPT ![c].pc = "done",
                            ![c].client = 0,
                            ![c].out = IF call[c].pending.exc.type # "none"
                                       THEN handler_except(call[c].pending.exc)
                                       ELSE handler_success(call[c].loc,
                                                            call[c].pending.data)]
    /\ UNCHANGED pyver

\* the server sends the result; the invocation is over
Return(c) ==
    /\ call[c].pc = "done"
    /\ call' = [call EXCEPT ![c] = IdleCall]
    /\ UNCHANGED <<pyver, open>>

\* One call at a time, any arguments.
Next ==
    \/ \E name \in ToolNames, a \in Arguments : InFlight = {} /\ CallTool(FreeSlot, name, a)
    \/ \E a \in KwArguments : InFlight = {} /\ GetAwsNews(FreeSlot, a)
    \/ \E c \in CallIds : AcquireClient(c)
    \/ \E c \in CallIds : SendGet(c)
    \/ \E c \in CallIds, u \in Upstreams : Receive(c, u)
    \/ \E c \in CallIds : ReleaseClient(c)
    \/ \E c \in CallIds : Return(c)

Spec == Init /\ [][Next]_vars

\* The same on the interpreter that parses the most: Python 3.11 or later.
InitPy311 == Init /\ pyver = "py311"
SpecPy311 == InitPy311 /\ [][Next]_vars

\* Concurrent calls to one server process (one front end).
SameProcess(f) == \A c \in InFlight : call[c].fe = f

NextConc ==
    \/ \E a \in ConcArguments :
          /\ InFlight # CallIds /\ SameProcess("server")
          /\ CallTool(FreeSlot, "get_aws_news", a)
    \/ \E a \in ConcArguments :
          /\ InFlight # CallIds /\ SameProcess("main")
          /\ GetAwsNews(FreeSlot, a)
    \/ \E c \in CallIds : AcquireClient(c)
    \/ \E c \in CallIds : SendGet(c)
    \/ \E c \in CallIds, u \in ConcUpstreams : Receive(c, u)
    \/ \E c \in CallIds : ReleaseClient(c)
    \/ \E c \in CallIds : Return(c)

SpecConc == Init /\ [][NextConc]_vars

\* The same call given to both front ends: slot 1 is get_aws_news of main.py,
\* slot 2 is call_tool of aws_news_server.py, handed the arguments of slot 1
\* and answered by the upstream as slot 1 was.
SameUpstream(u) == call[1].nreq > 0 => u = call[1].upstream

NextEquiv ==
    \/ \E a \in KwArguments : InFlight = {} /\ GetAwsNews(1, a)
    \/ call[1].pc = "done" /\ CallTool(2, call[1].name, call[1].arguments)
    \/ \E c \in {1, 2} : AcquireClient(c)
    \/ \E c \in {1, 2} : SendGet(c)
    \/ \E u \in Upstreams : Receive(1, u)
    \/ \E u \in Upstreams : SameUpstream(u) /\ Receive(2, u)
    \/ \E c \in {1, 2} : ReleaseClient(c)
    \/ call[1].pc = "done" /\ call[2].pc = "done"
          /\ call' = [call EXCEPT ![1] = IdleCall, ![2] = IdleCall]
          /\ UNCHANGED <<pyver, open>>

SpecEquiv == Init /\ [][NextEquiv]_vars

(***************************************************************************)
(* What the upstream reads from the request: the query string split at     *)
(* '&' and '=', each side unquoted ('+' is a space, %XX a character).      *)
(***************************************************************************)
Unpercent(a, b) == CASE a = "3" /\ b = "A" -> ":"
                     [] a = "2" /\ b = "B" -> "+"
                     [] a = "2" /\ b = "C" -> ","
                     [] a = "2" /\ b = "6" -> "&"
                     [] a = "3" /\ b = "D" -> "="
                     [] a = "2" /\ b = "5" -> "%"
                     [] a = "2" /\ b = "F" -> "/"

RECURSIVE unquote_plus(_)
unquote_plus(s) ==
    IF s = <<>> THEN <<>>
    ELSE IF Head(s) = "+" THEN <<" ">> \o unquote_plus(Tail(s))
    ELSE IF Head(s) = "%" THEN <<Unpercent(s[2], s[3])>> \o unquote_plus(SubSeq(s, 4, Len(s)))
    ELSE <<Head(s)>> \o unquote_plus(Tail(s))

RECURSIVE Split(_, _)
Split(s, sep) ==
    IF \A i \in 1..Len(s) : s[i] # sep THEN <<s>>
    ELSE LET i == CHOOSE j \in 1..Len(s) : s[j] = sep /\ \A k \in 1..(j - 1) : s[k] # sep
         IN  <<SubSeq(s, 1, i - 1)>> \o Split(SubSeq(s, i + 1, Len(s)), sep)

parse_qsl(q) ==
    IF q = <<>> THEN <<>>
    ELSE LET segs == Split(q, "&")
         IN  [i \in 1..Len(segs) |->
                 LET kv == Split(segs[i], "=")
                 IN  <<unquote_plus(kv[1]), unquote_plus(kv[2])>>]

\* the values the query carries under a key, in order
QueryValues(q, key) ==
    LET pairs == parse_qsl(q)
        F[i \in 0..Len(pairs)] ==
            IF i = 0 THEN <<>>
            ELSE IF pairs[i][1] = key THEN Append(F[i - 1], pairs[i][2]) ELSE F[i - 1]
    IN  F[Len(pairs)]

(***************************************************************************)
(* Vocabulary of the claims.                                               *)
(***************************************************************************)
\* the invocation reached fetch_aws_news
Fetched(c) == call[c].pc # "idle" /\ call[c].out.kind # "raised"

\* fetch_aws_news ended in the validation error
ValidationFailed(c) == call[c].out.exc = ValueError(<<InvalidDateMsg>>)

\* the string does not parse as ISO 8601 once 'Z' is read as '+00:00'
Unparsable(s) == ~fromisoformat(pyver, replace(s, "Z", UTC_offset))

\* the single GET of the invocation has failed
GetFailed(c) == call[c].pending.exc.type \in {"ConnectError", "HTTPStatusError", "JSONDecodeError"}

\* the upstream answered with success status and a JSON body
UpstreamOK(c) == /\ call[c].upstream.net = "ok"
                 /\ call[c].upstream.status \in 200..299
                 /\ call[c].upstream.json

\* two strings equal up to the case of their letters
SameLetter(a, b) == a = b \/ \E i \in 1..26 : {a, b} = {UpperCase[i], LowerCase[i]}
EqualsIgnoreCase(s, w) == Len(s) = Len(w) /\ \A i \in 1..Len(s) : SameLetter(s[i], w[i])

\* int(s) of a string of digits
StrToInt(s) == NumVal(s, 0, Len(s))

\* ISO 8601 complete date and time representations: a calendar date
\* (YYYY-MM-DD, YYYYMMDD) or an ordinal date (YYYY-DDD, YYYYDDD), 'T', a time
\* (hh:mm:ss, hhmmss), and a zone designator (none, Z, +hh:mm, +hhmm, +hh);
\* extended date with extended time, basic with basic.
ISOYear(d) == AllDigits(d, 0, 4)
ISODateExtended(d) ==
    \/ /\ Len(d) = 10 /\ ISOYear(d) /\ At0(d, 4) = "-" /\ AllDigits(d, 5, 2)
       /\ At0(d, 7) = "-" /\ AllDigits(d, 8, 2)
       /\ NumVal(d, 5, 2) \in 1..12
       /\ NumVal(d, 8, 2) \in 1..days_in_month(NumVal(d, 0, 4), NumVal(d, 5, 2))
    \/ /\ Len(d) = 8 /\ ISOYear(d) /\ At0(d, 4) = "-" /\ AllDigits(d, 5, 3)
       /\ NumVal(d, 5, 3) \in 1..(IF is_leap(NumVal(d, 0, 4)) THEN 366 ELSE 365)
ISODateBasic(d) ==
    \/ /\ Len(d) = 8 /\ AllDigits(d, 0, 8)
       /\ NumVal(d, 4, 2) \in 1..12
       /\ NumVal(d, 6, 2) \in 1..days_in_month(NumVal(d, 0, 4), NumVal(d, 4, 2))
    \/ /\ Len(d) = 7 /\ AllDigits(d, 0, 7)
       /\ NumVal(d, 4, 3) \in 1..(IF is_leap(NumVal(d, 0, 4)) THEN 366 ELSE 365)
ISOTimeExtended(t) ==
    /\ Len(t) = 8 /\ AllDigits(t, 0, 2) /\ At0(t, 2) = ":" /\ AllDigits(t, 3, 2)
    /\ At0(t, 5) = ":" /\ AllDigits(t, 6, 2)
    /\ NumVal(t, 0, 2) \in 0..23 /\ NumVal(t, 3, 2) \in 0..59 /\ NumVal(t, 6, 2) \in 0..59
ISOTimeBasic(t) ==
    /\ Len(t) = 6 /\ AllDigits(t, 0, 6)
    /\ NumVal(t, 0, 2) \in 0..23 /\ NumVal(t, 2, 2) \in 0..59 /\ NumVal(t, 4, 2) \in 0..59
ISOZone(z, extended) ==
    \/ z = <<>>
    \/ z = <<"Z">>
    \/ /\ Len(z) \in {3, IF extended THEN 6 ELSE 5}
       /\ z[1] \in {"+", "-"}
       /\ AllDigits(z, 1, 2) /\ NumVal(z, 1, 2) \in 0..23
       /\ Len(z) = 6 => (z[4] = ":" /\ AllDigits(z, 4, 2) /\ NumVal(z, 4, 2) \in 0..59)
       /\ Len(z) = 5 => (AllDigits(z, 3, 2) /\ NumVal(z, 3, 2) \in 0..59)
IsISO8601(s) ==
    \E i \in 1..Len(s) :
        /\ s[i] = "T"
        /\ \E j \in (i + 1)..(Len(s) + 1) :
              LET d == SubSeq(s, 1, i - 1)
                  tm == SubSeq(s, i + 1, j - 1)
                  z == SubSeq(s, j, Len(s))
              IN  \/ ISODateExtended(d) /\ ISOTimeExtended(tm) /\ ISOZone(z, TRUE)
                  \/ ISODateBasic(d) /\ ISOTimeBasic(tm) /\ ISOZone(z, FALSE)

(***************************************************************************)
(* The claims.                                                             *)
(***************************************************************************)
SinceOf(c) == call[c].loc.since_date
RejectedDate(c) == Truthy(SinceOf(c)) /\ Unparsable(SinceOf(c))
EndedInValidationError(c) ==
    /\ call[c].pc = "done"
    /\ call[c].out = ErrorText(ValueError(<<InvalidDateMsg>>))
    /\ call[c].nreq = 0
    /\ call[c].client = 0

\* C1, as stated: every invocation of fetch_aws_news whose caller-supplied
\* since_date string does not parse as ISO 8601 (after 'Z' is read as '+00:00')
\* ends in the validation error and has issued no HTTP request.
C1_UnparsableDateRejected ==
    \A c \in CallIds :
        (Fetched(c) /\ SinceOf(c) # None /\ Unparsable(SinceOf(c)))
            => EndedInValidationError(c)

\* C1, amended: every invocation of fetch_aws_news whose since_date is a
\* non-empty string that does not parse ends in the validation error, has
\* issued no HTTP request and holds no client.
C1_NonEmptyUnparsableDateRejected ==
    \A c \in CallIds :
        (Fetched(c) /\ RejectedDate(c)) => EndedInValidationError(c)

C1_Witness ==
    \E c \in CallIds : Fetched(c) /\ SinceOf(c) = D_month13 /\ EndedInValidationError(c)

\* C2, as stated: every invocation of fetch_aws_news, whatever its parameters
\* and outcome, has issued exactly one HTTP request when it terminates, and
\* has mutated no state outside itself.
C2_ExactlyOneRequest ==
    \A c \in CallIds :
        (Fetched(c) /\ call[c].pc = "done")
            => (call[c].nreq = 1 /\ call[c].client = 0 /\ open = {})

\* C2, amended: an invocation of fetch_aws_news never issues more than one
\* HTTP request; when it terminates it has issued exactly one if its
\* since_date was absent, empty or valid and none if the date was rejected,
\* and it leaves no state behind: the client it opened is closed.
C2_OneRequestUnlessRejected ==
    \A c \in CallIds :
        /\ call[c].nreq <= 1
        /\ (Fetched(c) /\ call[c].pc = "done")
              => /\ call[c].nreq = (IF RejectedDate(c) THEN 0 ELSE 1)
                 /\ call[c].client = 0
                 /\ open = {}

C2_Witness ==
    \E c \in CallIds :
        /\ call[c].pc = "done" /\ call[c].nreq = 1
        /\ call[c].upstream = Response(302, FALSE, <<>>)

\* C3: no retry.  Once the GET of an invocation has failed (network failure,
\* non-success status, JSON decode failure) the invocation is on its way out
\* of fetch_aws_news or done, every further step of it issues no request, and
\* it ends in the handler's error text for that failure.
C3_NoRetry ==
    [][\A c \in CallIds :
          GetFailed(c) =>
              /\ call[c].pc \in {"exiting", "done"}
              /\ \/ call'[c] = IdleCall
                 \/ /\ call'[c].pc \in {"exiting", "done"}
                    /\ call'[c].nreq = call[c].nreq
                    /\ call'[c].pc = "done" => call'[c].out = ErrorText(call[c].pending.exc)]_vars

C3_Witness ==
    \E c \in CallIds :
        /\ call[c].pc = "done" /\ call[c].pending.exc = JSONDecodeError
        /\ call[c].nreq = 1 /\ call[c].out = ErrorText(JSONDecodeError)

\* the two outcomes of C4: the envelope, and the error text without envelope
IsEnvelope(o) == o.kind = "returned" /\ o.json /\ o.exc = NoExc /\ o.prefix = ""
IsErrorText(o) == /\ o.kind = "returned" /\ ~o.json /\ o.prefix = ErrorPrefix
                  /\ o.exc.type # "none" /\ o.env = NoEnv
EnvelopeOrErrorText(c) ==
    /\ IsEnvelope(call[c].out) \/ IsErrorText(call[c].out)
    /\ (RejectedDate(c) \/ GetFailed(c)) => IsErrorText(call[c].out)
    /\ IsEnvelope(call[c].out) => call[c].out.env.articles = call[c].pending.data

\* C4, as stated: every invocation of the get_aws_news tool handler ends in
\* the envelope or in the error text "Error fetching AWS news: ...", never in
\* an exception; validation and upstream errors become the text, and an
\* error carries no envelope.
C4_AlwaysEnvelopeOrErrorText ==
    \A c \in CallIds :
        (call[c].pc = "done" /\ call[c].name = "get_aws_news") => EnvelopeOrErrorText(c)

\* C4, amended: every invocation of the get_aws_news tool handler that
\* carries a topic ends in the envelope or in the error text, never in an
\* exception; validation and upstream errors become the text, and an error
\* carries no envelope.
C4_EnvelopeOrErrorTextGivenTopic ==
    \A c \in CallIds :
        (/\ call[c].pc = "done" /\ call[c].name = "get_aws_news"
         /\ "topic" \in DOMAIN call[c].arguments) => EnvelopeOrErrorText(c)

C4_Witness ==
    \E c \in CallIds :
        /\ call[c].pc = "done" /\ call[c].fe = "server"
        /\ call[c].pending.exc.type = "HTTPStatusError"
        /\ IsErrorText(call[c].out)

\* C5: the query carries article_type=news exactly when news_type is "news"
\* in any case, article_type=blog exactly when it is "blogs" or "blog" in any
\* case, and no article_type for every other value; a call with such a value
\* goes on to the request (unless its date is rejected).
IsNews(nt) == EqualsIgnoreCase(nt, S_news)
IsBlog(nt) == EqualsIgnoreCase(nt, S_blogs) \/ EqualsIgnoreCase(nt, S_blog)
C5_ArticleType ==
    \A c \in CallIds :
        LET nt == call[c].loc.news_type
            v  == QueryValues(call[c].url, K_article_type)
        IN  /\ call[c].url # <<>> =>
                 /\ v = <<S_news>> <=> IsNews(nt)
                 /\ v = <<S_blog>> <=> IsBlog(nt)
                 /\ v = <<>> <=> (~IsNews(nt) /\ ~IsBlog(nt))
            /\ (Fetched(c) /\ ~IsNews(nt) /\ ~IsBlog(nt) /\ ~RejectedDate(c)) =>
                 /\ call[c].url # <<>>
                 /\ call[c].pc = "done" => call[c].nreq = 1

C5_Witness ==
    \E c \in CallIds :
        /\ call[c].loc.news_type = NT_BLOG /\ call[c].nreq = 1
        /\ QueryValues(call[c].sent, K_article_type) = <<S_blog>>

\* C6: for every since_date that is a valid ISO 8601 timestamp, with or
\* without 'Z', validation succeeds and the request carries it unchanged as
\* since; the since key is in the query only when since_date is present and
\* valid.  Fails for the ordinal date 2025-121T00:00:00Z on every
\* interpreter, and for the basic format 20250501T000000Z before Python 3.11.
C6_ISODateForwarded ==
    \A c \in CallIds :
        Fetched(c) =>
            /\ (SinceOf(c) # None /\ IsISO8601(SinceOf(c))) =>
                  /\ ~ValidationFailed(c)
                  /\ call[c].nreq > 0 => QueryValues(call[c].sent, K_since) = <<SinceOf(c)>>
            /\ (call[c].nreq > 0 /\ QueryValues(call[c].sent, K_since) # <<>>) =>
                  (SinceOf(c) # None /\ ~Unparsable(SinceOf(c)))

\* C7: whenever an invocation has issued its request, through either front
\* end, topic was present and a non-empty string.
C7_TopicNonEmpty ==
    \A c \in CallIds :
        call[c].nreq > 0 =>
            ("topic" \in DOMAIN call[c].arguments /\ call[c].loc.topic # <<>>)

C10_FrontEndsAgree ==
    (call[1].pc = "done" /\ call[2].pc = "done") =>
        /\ call[1].fe = "main" /\ call[2].fe = "server"
        /\ call[1].loc = call[2].loc
        /\ call[2].loc = [topic |-> call[2].arguments["topic"],
                           news_type |-> Get(call[2].arguments, "news_type", S_all),
                           include_regional_expansions |->
                               Get(call[2].arguments, "include_regional_expansions", FALSE),
                           limit |-> Get(call[2].arguments, "number_of_results", 40),
                           since_date |-> Get(call[2].arguments, "since_date", None)]
        /\ call[1].nreq = call[2].nreq
        /\ call[1].sent = call[2].sent
        /\ call[1].out = call[2].out
        /\ call[2].nreq > 0 =>
              QueryValues(call[2].sent, K_hide) =
                  <<str(BoolV(~Get(call[2].arguments, "include_regional_expansions", FALSE)))>>

C10_Witness ==
    /\ call[1].pc = "done" /\ call[2].pc = "done"
    /\ DOMAIN call[2].arguments = {"topic"}
    /\ IsEnvelope(call[2].out)
    /\ QueryValues(call[2].sent, K_page_size) = <<<<"4", "0">>>>

====
